---------------------------- MODULE Spec2Model ----------------------------
(***************************************************************************)
(* A model of the HeatMap address-resolution pipeline:                     *)
(*                                                                         *)
(*   - the Resolution Engine, AddressValidationService.exec, with its two  *)
(*     provider adapters (Google = primary, Lob = secondary) and the       *)
(*     ZIP-centroid rescue lookup (GeocodingService);                      *)
(*   - the processing state of stores/mapStore.ts and the batch loop       *)
(*     MapService.addMarkers driven by the AddressMap effect.              *)
(*                                                                         *)
(* JavaScript values are written as strings: text as itself, a number in   *)
(* decimal ("0", "41", "-87"), and undefined/null as Undefined.  An object *)
(* whose keys may be absent (a geocode, a suggestions object) is a         *)
(* function whose DOMAIN is the set of keys it owns.                        *)
(***************************************************************************)
EXTENDS Integers, Sequences, FiniteSets, TLC

VARIABLES
    \* ---- Resolution Engine (one AddressValidationService.exec call) ----
    zipDB,          \* the ZipMonster dataset: ZIP -> list of ZipInformation
    execPc,         \* "idle" | "google" | "lob" | "returned" | "thrown"
    execAddress,    \* this.address of the service instance
    called,         \* provider adapters exec has invoked in this call
    gOut,           \* how ValidateAddressViaGoogle settled (threw / value)
    lOut,           \* how validateAddressViaLob settled (threw / value)
    execPath,       \* which return path exec took
    chosen,         \* geocode exec went with, as the provider delivered it
    execResult,     \* the value exec resolved with
    \* ---- Batch processing (AddressMap + MapService + mapStore) ----
    store,          \* the module-level MapState of stores/mapStore.ts
    component,      \* AddressMap: "mounting" | "ready" | "failed" | "disposed"
    countyLayer,    \* MapService.countyLayer is set
    propsAddresses, \* props.addresses of AddressMap
    tasks,          \* runs of the AddressMap effect, in the order they started
    now,            \* Date.now(), in seconds
    attempts,       \* per run, the this.geocode calls that settled: item, ok
    \* ---- formatETA on its own ----
    etaSeconds,     \* the argument formatETA is called with
    etaText,        \* what it returned, "" before the call
    \* ---- Share persistence gateway ----
    shares,         \* calls of MapService.saveHeatMap, in the order made
    backend,        \* the remote store: the saved documents, in id order
    route,          \* the resource of routes/map/[id].tsx (SharedMap)
    \* ---- Search box ----
    search          \* the signals of SearchBox and the localStorage item

execVars == <<zipDB, execPc, execAddress, called, gOut, lOut, execPath,
              chosen, execResult>>

batchVars == <<store, component, countyLayer, propsAddresses, tasks, now,
               attempts>>

etaVars == <<etaSeconds, etaText>>

shareVars == <<shares, backend, route>>

vars == <<zipDB, execPc, execAddress, called, gOut, lOut, execPath,
          chosen, execResult, store, component, countyLayer, propsAddresses,
          tasks, now, attempts, etaSeconds, etaText, shares, backend, route,
          search>>

---------------------------------------------------------------------------
(* JavaScript value helpers                                                *)

Undefined == "undefined"

\* !v for the values of the model: undefined/null, the empty string, 0.
Falsy(v) == v \in {Undefined, "", "0"}

\* a ?? b
Coalesce(a, b) == IF a = Undefined THEN b ELSE a

\* {} : an object owning no key
EmptyObject == [k \in {} |-> Undefined]

\* String.prototype.toUpperCase on the strings of the model
toUpperCase(s) ==
    CASE s = "1 n main st" -> "1 N MAIN ST"
      [] s = "chicago"     -> "CHICAGO"
      [] s = "apt 2"       -> "APT 2"
      [] s = "il"          -> "IL"
      [] OTHER             -> s

\* s.split('-')[0] on the strings of the model
splitDashFirst(s) ==
    CASE s = "60601-1234" -> "60601"
      [] s = "60602-0001" -> "60602"
      [] OTHER            -> s

\* USStateConverter.convert(abbr, 'long') on the states of the model
convertLong(s) ==
    CASE s = "IL" -> "Illinois"
      [] s = "WI" -> "Wisconsin"
      [] OTHER    -> Undefined

---------------------------------------------------------------------------
(* Data of the Resolution Engine                                            *)

Location(lat, lng) == [latitude |-> lat, longitude |-> lng]

Component(type, text, level) ==
    [componentType |-> type, componentName |-> text, confirmationLevel |-> level]

ValidatedAddress(street, unit, city, state, zip, county) ==
    [street |-> street, unitNumber |-> unit, city |-> city, state |-> state,
     zip |-> zip, county |-> county]

AddressFieldNames == {"street", "unitNumber", "city", "state", "zip", "county"}

BasicAddress(street, unit, city, state, zip) ==
    [street |-> street, unitNumber |-> unit, city |-> city, state |-> state,
     zip |-> zip]

\* ConfirmedAddress | UnconfirmedAddress, tagged with the provider
Result(allValid, issues, validatedAddress, originalAddress, suggestions, geocode, verifiedWith) ==
    [allValid |-> allValid, issues |-> issues,
     validatedAddress |-> validatedAddress,
     originalAddress |-> originalAddress, suggestions |-> suggestions,
     geocode |-> geocode, verifiedWith |-> verifiedWith]

\* placeholder held by a variable before a value exists
NoAddress == BasicAddress(Undefined, Undefined, Undefined, Undefined, Undefined)

NoResult ==
    Result(FALSE, <<>>,
           ValidatedAddress(Undefined, Undefined, Undefined, Undefined,
                            Undefined, Undefined),
           NoAddress, EmptyObject, EmptyObject, "none")

\* how an async adapter settles: rejected (threw) or resolved with value;
\* rescue records what the ZIP-centroid rescue did on the way
Thrown(rescue) == [threw |-> TRUE, value |-> NoResult, rescue |-> rescue]
Returned(v, rescue) == [threw |-> FALSE, value |-> v, rescue |-> rescue]
NotSettled == [threw |-> FALSE, value |-> NoResult, rescue |-> "pending"]

\* the guard of the rescue: the geocode lacks a usable latitude/longitude
LocationInvalid(hasGeocode, geocode) ==
    \/ ~hasGeocode
    \/ "location" \notin DOMAIN geocode
    \/ Falsy(geocode["location"].latitude)
    \/ Falsy(geocode["location"].longitude)

\* ZipMonster.find({ zip }) wrapped in a promise: the entries for the ZIP
geolocateZipCode(db, zip) ==
    IF zip \in DOMAIN db THEN db[zip] ELSE <<>>

---------------------------------------------------------------------------
(* Primary provider adapter                                                 *)

\* addressComponents.find(c => c.componentType === type)?.componentName.text
findComponentText(components, type) ==
    LET hits == {i \in DOMAIN components : components[i].componentType = type}
    IN  IF hits = {} THEN Undefined
        ELSE components[CHOOSE i \in hits : \A j \in hits : i <= j].componentName

googleValidatedAddress(resp) ==
    ValidatedAddress(
        IF Len(resp.addressLines) >= 1 THEN resp.addressLines[1] ELSE Undefined,
        IF Len(resp.addressLines) >= 2 THEN resp.addressLines[2] ELSE Undefined,
        resp.locality,
        convertLong(resp.administrativeArea),
        splitDashFirst(resp.postalCode),
        resp.county)

ValidateAddressViaGoogle(address, resp, db) ==
    IF resp.kind # "result" THEN Thrown("none")
    ELSE
    LET allValid ==
            \A i \in DOMAIN resp.addressComponents :
                resp.addressComponents[i].confirmationLevel = "CONFIRMED"
        needRescue == LocationInvalid(resp.hasGeocode, resp.geocode)
        zipToVerify == Coalesce(splitDashFirst(resp.postalCode), address.zip)
        found == geolocateZipCode(db, zipToVerify)
        zipInfoOk == Len(found) >= 1 /\ found[1].hasLocation
        geocode ==
            IF needRescue
            THEN ("location" :> found[1].location) @@ resp.geocode
            ELSE resp.geocode
        suggestions ==
            [street |-> findComponentText(resp.addressComponents, "street"),
             zip    |-> findComponentText(resp.addressComponents, "zip"),
             state  |-> findComponentText(resp.addressComponents, "state")]
        issues ==
            SelectSeq(resp.addressComponents,
                      LAMBDA c : c.confirmationLevel # "CONFIRMED")
    IN  IF needRescue /\ ~zipInfoOk THEN Thrown("unresolvable")
        ELSE IF needRescue /\ ~resp.hasGeocode THEN Thrown("typeerror")
        ELSE IF ~allValid
        THEN Returned(
                Result(FALSE, issues, googleValidatedAddress(resp), address,
                       suggestions, geocode, "Google"),
                IF needRescue THEN "substituted" ELSE "none")
        ELSE Returned(
                Result(TRUE, <<>>, googleValidatedAddress(resp), address,
                       EmptyObject, geocode, "Google"),
                IF needRescue THEN "substituted" ELSE "none")

---------------------------------------------------------------------------
(* Secondary provider adapter                                               *)

LobIssue(key, value) ==
    Component(key, value, "CONFIRMATION_LEVEL_UNSPECIFIED")

lobSuggestions(address, resp) ==
    LET c == resp.components
        street ==
            /\ resp.primary_line # toUpperCase(address.street)
            /\ (~Falsy(c.street_predirection) \/ ~Falsy(c.street_postdirection))
        zip == c.zip_code # address.zip
        state == c.state # toUpperCase(address.state)
    IN  (IF street THEN "street" :> "cardinal direction" ELSE EmptyObject)
        @@ (IF zip THEN "zip" :> "Zip Code Changed" ELSE EmptyObject)
        @@ (IF state THEN "state" :> "State changed" ELSE EmptyObject)

\* Object.entries(suggestions).map(...) in insertion order street, zip, state
lobIssues(suggestions) ==
    (IF "street" \in DOMAIN suggestions
        THEN <<LobIssue("street", suggestions["street"])>> ELSE <<>>)
    \o (IF "zip" \in DOMAIN suggestions
        THEN <<LobIssue("zip", suggestions["zip"])>> ELSE <<>>)
    \o (IF "state" \in DOMAIN suggestions
        THEN <<LobIssue("state", suggestions["state"])>> ELSE <<>>)

validateAddressViaLob(address, resp) ==
    IF address.street = Undefined \/ address.city = Undefined
       \/ address.state = Undefined
    THEN Thrown("none")                 \* undefined.toUpperCase()
    ELSE IF resp.kind # "response" THEN Thrown("none")
    ELSE
    LET c == resp.components
        suggestions == lobSuggestions(address, resp)
    IN  Returned(
            Result(DOMAIN suggestions = {},
                   lobIssues(suggestions),
                   ValidatedAddress(resp.primary_line, resp.secondary_line,
                                    c.city, convertLong(c.state), c.zip_code,
                                    c.county),
                   address, suggestions,
                   "location" :> Location(c.latitude, c.longitude),
                   "Lob"),
            "none")

---------------------------------------------------------------------------
(* AddressValidationService.exec                                            *)

\* variant: exec goes on to the secondary even when the primary is fully valid
ExecAfterGoogle_NoEarlyReturn(out) ==
    IF out.threw THEN "throw" ELSE "callLob"

\* what exec does once the primary adapter has settled
ExecAfterGoogle(out) ==
    IF out.threw THEN "throw"
    ELSE IF out.value.allValid THEN "return"
    ELSE "callLob"

\* Object.values(GoogleValidatedAddress).forEach(v => { if (v === '') v = null })
\* assigns the callback's own parameter: the object is left as it was
emptyToNull(validatedAddress) == validatedAddress

mergeField(g, l) == Coalesce(g, l)

mergeValidatedAddress(G, L) ==
    [f \in AddressFieldNames |-> mergeField(G[f], L[f])]

\* variant: the secondary's issues are dropped
mergeIssues_PrimaryOnly(GoogleIssues, LobIssues) == GoogleIssues

mergeIssues(GoogleIssues, LobIssues) == GoogleIssues \o LobIssues

\* variant: the spread is written the other way round
mergeGeocode_SecondaryWins(LobGeocode, GoogleGeocode) ==
    LobGeocode @@ GoogleGeocode

\* { ...LobGeocode, ...GoogleGeocode }
mergeGeocode(LobGeocode, GoogleGeocode) == GoogleGeocode @@ LobGeocode

mergeSuggestions(GoogleSuggestions, LobSuggestions) == LobSuggestions

\* exec from the point where neither provider was fully valid
mergeResults(address, G, L, db) ==
    LET GoogleValidatedAddress == emptyToNull(G.validatedAddress)
        needRescue == LocationInvalid(TRUE, G.geocode)
        zipToVerify ==
            Coalesce(GoogleValidatedAddress.zip,
                     Coalesce(L.validatedAddress.zip, address.zip))
        found == geolocateZipCode(db, zipToVerify)
        GoogleGeocode ==
            IF needRescue /\ Len(found) >= 1 /\ found[1].hasLocation
            THEN ("location" :> found[1].location) @@ G.geocode
            ELSE G.geocode
    IN  IF needRescue /\ Len(found) = 0
        THEN Thrown("typeerror")        \* const { location } = undefined
        ELSE Returned(
                Result(FALSE,
                       mergeIssues(G.issues, L.issues),
                       mergeValidatedAddress(GoogleValidatedAddress,
                                             L.validatedAddress),
                       address,
                       mergeSuggestions(G.suggestions, L.suggestions),
                       mergeGeocode(L.geocode, GoogleGeocode),
                       "Lob"),
                IF ~needRescue THEN "none"
                ELSE IF found[1].hasLocation THEN "substituted"
                ELSE "skipped")

\* variant: a fully valid secondary result is merged like a partial one
ExecAfterLob_AlwaysMerge(address, G, out, db) ==
    IF out.threw THEN Thrown("none")
    ELSE mergeResults(address, G, out.value, db)

\* what exec does once the secondary adapter has settled
ExecAfterLob(address, G, out, db) ==
    IF out.threw THEN Thrown("none")
    ELSE IF out.value.allValid THEN Returned(out.value, "none")
    ELSE mergeResults(address, G, out.value, db)

\* exec from call to settlement, given what the two providers answer
exec(address, googleResp, lobResp, db) ==
    LET g == ValidateAddressViaGoogle(address, googleResp, db)
        step == ExecAfterGoogle(g)
    IN  CASE step = "throw"  -> Thrown(g.rescue)
          [] step = "return" -> g
          [] OTHER ->
                ExecAfterLob(address, g.value,
                             validateAddressViaLob(address, lobResp), db)

---------------------------------------------------------------------------
(* The inputs the Resolution Engine is exercised with                       *)

BasicAddresses ==
    { BasicAddress("1 n main st", Undefined, "chicago", "il", "60601"),
      BasicAddress("1 N MAIN ST", "apt 2", "CHICAGO", "IL", "60602") }

ZipInformation(hasLocation, location) ==
    [hasLocation |-> hasLocation, location |-> location]

\* ZIP centroids are real places: never on the equator or prime meridian
Centroid60601 == Location("40", "-88")
Centroid60602 == Location("39", "-89")

ZipDatasets ==
    { ("60601" :> e) @@ ("60602" :> <<ZipInformation(TRUE, Centroid60602)>>) :
        e \in { <<>>,
                <<ZipInformation(FALSE, Location(Undefined, Undefined))>>,
                <<ZipInformation(TRUE, Centroid60601)>> } }

GoogleResponse(kind, addressLines, locality, administrativeArea, postalCode, county, addressComponents, hasGeocode, geocode) ==
    [kind |-> kind, addressLines |-> addressLines, locality |-> locality,
     administrativeArea |-> administrativeArea, postalCode |-> postalCode,
     county |-> county, addressComponents |-> addressComponents,
     hasGeocode |-> hasGeocode, geocode |-> geocode]

GoogleFailure(kind) ==
    GoogleResponse(kind, <<>>, Undefined, Undefined, Undefined, Undefined,
                   <<>>, FALSE, EmptyObject)

GoogleAddressLines ==
    { <<>>, <<"">>, <<"1 N MAIN ST">>, <<"1 N MAIN ST", "APT 2">> }

GoogleComponentLists ==
    { <<Component("street", "1 N MAIN ST", "CONFIRMED"),
        Component("postal_code", "60601", "CONFIRMED")>>,
      <<Component("street", "1 N MAIN ST", "UNCONFIRMED_BUT_PLAUSIBLE"),
        Component("postal_code", "60601", "CONFIRMED")>>,
      <<Component("street", "1 N MAIN ST", "UNCONFIRMED_AND_SUSPICIOUS"),
        Component("zip", "60601", "INFERRED")>> }

\* <<geocode present?, geocode>>
GoogleGeocodes ==
    { <<FALSE, EmptyObject>>,
      <<TRUE, EmptyObject>>,
      <<TRUE, "location" :> Location("0", "0")>>,
      <<TRUE, "location" :> Location("41", "0")>>,
      <<TRUE, "location" :> Location(Undefined, "-87")>>,
      <<TRUE, "location" :> Location("41", "-87")>>,
      <<TRUE, ("location" :> Location("41", "-87")) @@ ("placeId" :> "ChIJ")>> }

\* what the primary provider's endpoint may answer: the fetch rejects, an
\* error payload, a payload without result, or a validation result
GoogleResponses ==
    { GoogleFailure("reject"), GoogleFailure("error"), GoogleFailure("noresult") }
    \cup
    { GoogleResponse("result", l, c, "IL", z, k, a, g[1], g[2]) :
        l \in GoogleAddressLines, c \in {"", "CHICAGO"},
        z \in {"", "60601-1234"}, k \in {Undefined, "COOK"},
        a \in GoogleComponentLists, g \in GoogleGeocodes }

LobComponents(city, state, zip_code, county, latitude, longitude, street_predirection, street_postdirection) ==
    [city |-> city, state |-> state, zip_code |-> zip_code, county |-> county,
     latitude |-> latitude, longitude |-> longitude,
     street_predirection |-> street_predirection,
     street_postdirection |-> street_postdirection]

LobResponse(kind, primary_line, secondary_line, components) ==
    [kind |-> kind, primary_line |-> primary_line,
     secondary_line |-> secondary_line, components |-> components]

LobFailure(kind) ==
    LobResponse(kind, Undefined, Undefined,
                LobComponents(Undefined, Undefined, Undefined, Undefined,
                              Undefined, Undefined, Undefined, Undefined))

\* what the secondary provider's SDK may answer: verifySingle rejects, a
\* falsy response, a response without components, or a verification
LobResponses ==
    { LobFailure("reject"), LobFailure("empty"), LobFailure("nocomponents") }
    \cup
    { LobResponse("response", p[1], u,
                  LobComponents(c, s, z, k, g[1], g[2], p[2], Undefined)) :
        p \in { <<"1 N MAIN ST", "N">>, <<"1 NORTH MAIN ST", "N">> },
        u \in {Undefined, "APT 2"}, c \in {"", "CHICAGO"}, s \in {"IL", "WI"},
        z \in {"60601", "60602"}, k \in {Undefined, "COOK"},
        g \in { <<Undefined, Undefined>>, <<"0", "0">>, <<"42", "-88">> } }

---------------------------------------------------------------------------
(* stores/mapStore.ts                                                       *)

InitialState ==
    [useMiles |-> TRUE, isLoading |-> FALSE, progress |-> 0, total |-> 0,
     failed |-> 0, failedAddresses |-> <<>>, eta |-> "", startTime |-> 0,
     shareId |-> "", isSuccess |-> FALSE, shareError |-> "",
     addresses |-> <<>>, geocodedAddresses |-> EmptyObject,
     processedAddresses |-> <<>>]

\* an input address; its display text (address) plays no part and is left out
Address(fields, lat, lng) == [fields |-> fields, lat |-> lat, lng |-> lng]

AddressFields(street, city, state, zip) ==
    [street |-> street, city |-> city, state |-> state, zip |-> zip]

addressToKey(address) ==
    address.fields.street \o "|" \o address.fields.city \o "|"
        \o address.fields.state \o "|" \o address.fields.zip

\* Math.ceil(a / b) for b > 0
Ceil(a, b) == -((-a) \div b)

\* as formatETA, but without the minutes form
formatETA_SecondsOnly(seconds) == ToString(Ceil(seconds, 1)) \o "s"

formatETA(seconds) ==
    IF seconds < 60 THEN ToString(Ceil(seconds, 1)) \o "s"
    ELSE LET minutes == seconds \div 60
             remainingSeconds == Ceil(seconds % 60, 1)
         IN  ToString(minutes) \o "m " \o ToString(remainingSeconds) \o "s"

startProcessing(st, total, clock) ==
    [st EXCEPT !.isLoading = TRUE, !.progress = 0, !.total = total,
               !.failed = 0, !.failedAddresses = <<>>, !.startTime = clock,
               !.shareId = "", !.isSuccess = FALSE, !.shareError = "",
               !.processedAddresses = <<>>]

\* times are whole seconds, so elapsed / current * remaining is exact
updateETA(st, current, clock) ==
    LET elapsed == clock - st.startTime
        remaining == st.total - current
    IN  IF current > 0
        THEN [st EXCEPT !.eta = formatETA(Ceil(remaining * elapsed, current))]
        ELSE st

updateProgress(st, current, clock) ==
    updateETA([st EXCEPT !.progress = current], current, clock)

\* as ProcessedAddress, but latitude and longitude change places
ProcessedAddress_CoordinatesSwapped(address, coords) ==
    [street |-> address.fields.street, city |-> address.fields.city,
     state |-> address.fields.state, zip |-> address.fields.zip,
     geocode |-> [latitude |-> coords.lng, longitude |-> coords.lat],
     countyDensity |-> coords.countyDensity]

ProcessedAddress(address, coords) ==
    [street |-> address.fields.street, city |-> address.fields.city,
     state |-> address.fields.state, zip |-> address.fields.zip,
     geocode |-> [latitude |-> coords.lat, longitude |-> coords.lng],
     countyDensity |-> coords.countyDensity]

setGeocoded(st, address, coords) ==
    [st EXCEPT !.geocodedAddresses = (addressToKey(address) :> coords) @@ @,
               !.processedAddresses = Append(@, ProcessedAddress(address, coords))]

setFailed(st, addresses) ==
    [st EXCEPT !.failedAddresses = addresses, !.failed = Len(addresses)]

\* as finishProcessing, but success is reported only without failures
finishProcessing_GatedByFailures(st, success) ==
    [st EXCEPT !.isLoading = FALSE, !.isSuccess = success /\ st.failed = 0]

finishProcessing(st, success) ==
    [st EXCEPT !.isLoading = FALSE, !.isSuccess = success]

reset(st) == [InitialState EXCEPT !.useMiles = st.useMiles]

---------------------------------------------------------------------------
(* services/MapService.ts                                                   *)

Coords(lat, lng, countyDensity) ==
    [lat |-> lat, lng |-> lng, countyDensity |-> countyDensity]

\* the county polygons of the loaded layer, as the points they contain:
\* getLayers().find(layer => booleanPointInPolygon(pt, layer.feature.geometry))
\* and then feature.properties.density, or 0 when no layer contains the point
findCounty(lat, lng) ==
    CASE lat = "41" /\ lng = "-87" -> [found |-> TRUE, density |-> "2100"]
      [] lat = "42" /\ lng = "-88" -> [found |-> TRUE, density |-> "310"]
      [] OTHER                     -> [found |-> FALSE, density |-> Undefined]

countyDensityAt(lat, lng) ==
    LET county == findCounty(lat, lng)
    IN  IF county.found THEN county.density ELSE "0"

\* the address handed to AddressValidationService (no unitNumber)
geocodeAddress(addr) ==
    BasicAddress(IF Falsy(addr.fields.street) THEN "" ELSE addr.fields.street,
                 Undefined,
                 IF Falsy(addr.fields.city) THEN "" ELSE addr.fields.city,
                 addr.fields.state,
                 IF Falsy(addr.fields.zip) THEN "" ELSE addr.fields.zip)

NoCoords == <<>>

\* MapService.geocode: never rejects; coords is null on any failure
geocode(address, googleResp, lobResp, db) ==
    LET out == exec(address, googleResp, lobResp, db)
    IN  IF out.threw           \* error.message, whatever it says
        THEN [coords |-> NoCoords, error |-> "Geocoding error"]
        ELSE IF LocationInvalid(TRUE, out.value.geocode)
        THEN [coords |-> NoCoords,
              error |-> "No coordinates returned from geocoding service"]
        ELSE [coords |-> <<out.value.geocode["location"].latitude,
                           out.value.geocode["location"].longitude>>,
              error |-> Undefined]

FailedAddress(addr, error) ==
    [fields |-> addr.fields, lat |-> addr.lat, lng |-> addr.lng,
     error |-> error]

Task(pc, addresses, index, failed) ==
    [pc |-> pc, addresses |-> addresses, index |-> index, failed |-> failed]

\* as hasCoordinates, but the given coordinates are never used
hasCoordinates_Never(addr) == FALSE

\* addr.lat && addr.lng
hasCoordinates(addr) == ~Falsy(addr.lat) /\ ~Falsy(addr.lng)

\* addMarkers from the head of the for loop at item task.index (1-based) up
\* to its next await or its end; onProgress is actions.updateProgress
RECURSIVE addMarkersLoop(_, _, _, _)
addMarkersLoop(st, task, clock, layer) ==
    IF task.index > Len(task.addresses)
    THEN [store |-> st, task |-> [task EXCEPT !.pc = "resolved"]]
    ELSE
    LET addr == task.addresses[task.index]
        st1 == updateProgress(st, task.index, clock)
    IN  IF hasCoordinates(addr)
        THEN IF layer
             THEN addMarkersLoop(
                    setGeocoded(st1, addr,
                                Coords(addr.lat, addr.lng,
                                       countyDensityAt(addr.lat, addr.lng))),
                    [task EXCEPT !.index = @ + 1], clock, layer)
             ELSE addMarkersLoop(       \* undefined.find(...) is caught
                    st1,
                    [task EXCEPT !.index = @ + 1,
                                 !.failed = Append(@,
                                    FailedAddress(addr, "Failed to add marker"))],
                    clock, layer)
        ELSE [store |-> st1, task |-> [task EXCEPT !.pc = "geocoding"]]

\* as addMarkersResume, but a failed item ends the loop
addMarkersResume_StopsOnFailure(st, task, result, clock, layer) ==
    LET addr == task.addresses[task.index]
    IN  IF result.coords # NoCoords
        THEN addMarkersLoop(
                setGeocoded(st, addr,
                            Coords(result.coords[1], result.coords[2],
                                   countyDensityAt(result.coords[1],
                                                   result.coords[2]))),
                [task EXCEPT !.index = @ + 1], clock, layer)
        ELSE [store |-> st,
              task |-> [task EXCEPT !.pc = "resolved",
                            !.failed = Append(@, FailedAddress(addr, result.error))]]

\* as addMarkersResume, but the loop does not go past a failed item
addMarkersResume_WaitsOnFailure(st, task, result, clock, layer) ==
    LET addr == task.addresses[task.index]
    IN  IF result.coords # NoCoords
        THEN addMarkersLoop(
                setGeocoded(st, addr,
                            Coords(result.coords[1], result.coords[2],
                                   countyDensityAt(result.coords[1],
                                                   result.coords[2]))),
                [task EXCEPT !.index = @ + 1], clock, layer)
        ELSE [store |-> st, task |-> [task EXCEPT !.pc = "waiting"]]

\* addMarkers from the point where await this.geocode(...) has settled
addMarkersResume(st, task, result, clock, layer) ==
    LET addr == task.addresses[task.index]
    IN  IF result.coords # NoCoords
        THEN IF layer
             THEN addMarkersLoop(
                    setGeocoded(st, addr,
                                Coords(result.coords[1], result.coords[2],
                                       countyDensityAt(result.coords[1],
                                                       result.coords[2]))),
                    [task EXCEPT !.index = @ + 1], clock, layer)
             ELSE [store |-> st,       \* undefined.find(...) is not caught
                   task |-> [task EXCEPT !.pc = "rejected"]]
        ELSE addMarkersLoop(
                st,
                [task EXCEPT !.index = @ + 1,
                             !.failed = Append(@, FailedAddress(addr, result.error))],
                clock, layer)

---------------------------------------------------------------------------
(* components/AddressMap.tsx                                                *)

MaxBatches   == 2      \* effect runs in one behaviour
MaxAddresses == 2      \* length of an uploaded address list
MaxClock     == 1      \* seconds the clock may advance

InputAddresses ==
    { Address(AddressFields("1 n main st", "chicago", "il", "60601"),
              Undefined, Undefined),
      Address(AddressFields("9 OAK AVE", "MADISON", "WI", "53703"),
              "41", "-87"),
      Address(AddressFields("5 ELM ST", "GALENA", "IL", "6103"),
              "0", "-90") }

RECURSIVE ListsOfLength(_)
ListsOfLength(n) ==
    IF n = 0 THEN { <<>> }
    ELSE { Append(l, a) : l \in ListsOfLength(n - 1), a \in InputAddresses }

InputLists == UNION { ListsOfLength(n) : n \in 1..MaxAddresses }

\* what the providers answer during a batch
BatchGoogleResponses ==
    { GoogleFailure("reject"),
      GoogleResponse("result", <<"1 N MAIN ST">>, "CHICAGO", "IL",
                     "60601-1234", "COOK",
                     <<Component("street", "1 N MAIN ST", "CONFIRMED")>>,
                     TRUE, "location" :> Location("41", "-87")),
      GoogleResponse("result", <<"1 N MAIN ST">>, "CHICAGO", "IL",
                     "60601-1234", "COOK",
                     <<Component("street", "1 N MAIN ST", "INFERRED")>>,
                     TRUE, "location" :> Location("0", "0")) }

BatchLobResponses ==
    { LobFailure("reject"),
      LobResponse("response", "1 N MAIN ST", Undefined,
                  LobComponents("CHICAGO", "IL", "60601", "COOK",
                                Undefined, Undefined, "N", Undefined)),
      LobResponse("response", "1 N MAIN ST", Undefined,
                  LobComponents("CHICAGO", "IL", "60602", "COOK",
                                "42", "-88", "N", Undefined)) }

\* the ZIP datasets a batch is run against: 60601 unknown, or with a centroid
BatchZipDatasets ==
    { db \in ZipDatasets :
        db["60601"] \in { <<>>, <<ZipInformation(TRUE, Centroid60601)>> } }

BatchIdle ==
    /\ store = InitialState
    /\ component = "mounting"
    /\ countyLayer = FALSE
    /\ propsAddresses = <<>>
    /\ tasks = <<>>
    /\ now = 0
    /\ attempts = <<>>

\* a settled addMarkers promise has its continuation queued as a microtask,
\* which runs before the event loop takes the next event
MicrotaskQueued == \E t \in DOMAIN tasks : tasks[t].pc \in {"resolved", "rejected"}

\* the effect body up to its first await: startProcessing, then addMarkers
RunEffect(addresses, layer) ==
    LET run == addMarkersLoop(
                   startProcessing(store, Len(addresses), now),
                   Task("loop", addresses, 1, <<>>), now, layer)
    IN  /\ store' = run.store
        /\ tasks' = Append(tasks, run.task)
        /\ attempts' = Append(attempts, <<>>)

\* onMount settles: the map and the county layer are there and the effect
\* runs for the addresses already given; or initialize threw ("failed"); or
\* the map is there and loading the county dataset threw ("countiesFailed":
\* in loadCountyData, no layer, or in the component's own fetchCountyData)
OnMount ==
    /\ ~MicrotaskQueued
    /\ component = "mounting"
    /\ \E outcome \in {"ready", "failed", "countiesFailed"} :
        IF outcome = "ready"
        THEN /\ component' = "ready"
             /\ countyLayer' = TRUE
             /\ IF propsAddresses # <<>>
                THEN RunEffect(propsAddresses, TRUE)
                ELSE UNCHANGED <<store, tasks, attempts>>
        ELSE /\ component' = outcome
             /\ countyLayer' \in (IF outcome = "failed" THEN {FALSE} ELSE BOOLEAN)
             /\ UNCHANGED <<store, tasks, attempts>>
    /\ UNCHANGED <<propsAddresses, now>>
    /\ UNCHANGED <<execVars, etaVars, shareVars, search>>

\* the parent hands a new address list to the component (a file upload)
Upload ==
    /\ ~MicrotaskQueued
    /\ component \in {"mounting", "ready", "failed", "countiesFailed"}
    /\ \E list \in InputLists :
        /\ propsAddresses' = list
        /\ IF component = "ready"
           THEN /\ Len(tasks) < MaxBatches
                /\ RunEffect(list, countyLayer)
           ELSE UNCHANGED <<store, tasks, attempts>>
    /\ UNCHANGED <<component, countyLayer, now>>
    /\ UNCHANGED <<execVars, etaVars, shareVars, search>>

\* await this.geocode(...) of run t settles; addMarkers goes on
GeocodeSettles ==
    \E t \in DOMAIN tasks :
        /\ ~MicrotaskQueued
        /\ tasks[t].pc = "geocoding"
        /\ \E g \in BatchGoogleResponses, l \in BatchLobResponses :
            LET addr == tasks[t].addresses[tasks[t].index]
                result == geocode(geocodeAddress(addr), g, l, zipDB)
                run == addMarkersResume(store, tasks[t], result, now,
                                        countyLayer)
            IN  /\ store' = run.store
                /\ tasks' = [tasks EXCEPT ![t] = run.task]
                /\ attempts' = [attempts EXCEPT ![t] =
                        Append(@, [item |-> tasks[t].index,
                                   ok |-> result.coords # NoCoords])]
        /\ UNCHANGED <<component, countyLayer, propsAddresses, now>>
        /\ UNCHANGED <<execVars, etaVars, shareVars, search>>

\* await mapService.addMarkers(...) of run t settles; the effect goes on
AddMarkersSettles ==
    \E t \in DOMAIN tasks :
        /\ tasks[t].pc \in {"resolved", "rejected"}
        /\ store' = IF tasks[t].pc = "resolved"
                    THEN finishProcessing(setFailed(store, tasks[t].failed),
                                          TRUE)
                    ELSE finishProcessing(store, FALSE)
        /\ tasks' = [tasks EXCEPT ![t].pc = "done"]
        /\ UNCHANGED <<component, countyLayer, propsAddresses, now, attempts>>
        /\ UNCHANGED <<execVars, etaVars, shareVars, search>>

\* onCleanup: the component is disposed; runs in flight are not stopped
Cleanup ==
    /\ ~MicrotaskQueued
    /\ component # "disposed"
    /\ component' = "disposed"
    /\ store' = reset(store)
    /\ UNCHANGED <<countyLayer, propsAddresses, tasks, now, attempts>>
    /\ UNCHANGED <<execVars, etaVars, shareVars, search>>

Tick ==
    /\ ~MicrotaskQueued
    /\ now < MaxClock
    /\ now' = now + 1
    /\ UNCHANGED <<store, component, countyLayer, propsAddresses, tasks,
                   attempts>>
    /\ UNCHANGED <<execVars, etaVars, shareVars, search>>

---------------------------------------------------------------------------
(* Share persistence gateway: MapService.saveHeatMap / loadHeatMap,         *)
(* handleShare of AddressMap, and the SharedMap page routes/map/[id].tsx.   *)
(* A key of a JSON object that is absent reads as undefined, so a point is  *)
(* a record whose absent values are Undefined and JSON.stringify /          *)
(* response.json() keep it as it is; a geocode object is a function whose   *)
(* DOMAIN is the set of coordinates it owns.                                *)

MaxShares == 2     \* calls of saveHeatMap in one behaviour
MaxPoints == 2     \* length of a point list saved directly or found stored
MaxLoads  == 2     \* fetches of the SharedMap resource in one behaviour

\* the _id values the remote store hands out, in this order
ShareIds == <<"m1", "m2", "m3">>

\* an id the remote store does not know
UnknownId == "m0"

\* addr.geocode?.latitude, addr.geocode?.longitude
geocodeField(addr, key) ==
    IF key \in DOMAIN addr.geocode THEN addr.geocode[key] ELSE Undefined

\* as savePayload, but the longitude is not looked at
savePayload_LatitudeOnly(addresses) ==
    SelectSeq(addresses,
              LAMBDA addr : ~Falsy(geocodeField(addr, "latitude")))

\* the addresses saveHeatMap puts into the request body
savePayload(addresses) ==
    SelectSeq(addresses,
              LAMBDA addr : /\ ~Falsy(geocodeField(addr, "latitude"))
                            /\ ~Falsy(geocodeField(addr, "longitude")))

\* how a gateway call settled
Rejected(message) == [threw |-> TRUE, value |-> Undefined, message |-> message]
Resolved(value) == [threw |-> FALSE, value |-> value, message |-> Undefined]
Pending == [threw |-> FALSE, value |-> Undefined, message |-> "pending"]

\* what the save request came to: fetch rejected ("unreachable"), a status
\* outside 200..299 ("status"), or a JSON payload { success, message,
\* data: { _id } }
SaveResponse(kind, success, id, message) ==
    [kind |-> kind, success |-> success, id |-> id, message |-> message]

NoResponse == SaveResponse("none", FALSE, Undefined, Undefined)

\* the store hands out id with a payload either flagged or not; or it answers
\* without an id; or the request fails
SaveResponses(id) ==
    { SaveResponse("unreachable", FALSE, Undefined, Undefined),
      SaveResponse("status", FALSE, Undefined, Undefined),
      SaveResponse("json", TRUE, id, Undefined),
      SaveResponse("json", FALSE, id, "store error"),
      SaveResponse("json", FALSE, Undefined, "store error"),
      SaveResponse("json", FALSE, Undefined, Undefined),
      SaveResponse("json", TRUE, Undefined, Undefined) }

\* saveHeatMap from the point where await fetch(...) has settled
saveHeatMap(response) ==
    IF response.kind = "unreachable"
    THEN Rejected("Failed to fetch")              \* fetch's own TypeError
    ELSE IF response.kind = "status"
    THEN Rejected("Failed to save map data")
    ELSE IF Falsy(response.id)
    THEN Rejected(IF Falsy(response.message) THEN "Failed to save heatmap"
                  ELSE response.message)
    ELSE Resolved(response.id)

setShareResult(st, id, error) ==
    [st EXCEPT !.shareId = id,
               !.shareError = IF Falsy(error) THEN "" ELSE error]

RECURSIVE geocodedOf(_)
\* the Map setAddresses fills: a later address replaces an earlier one
geocodedOf(addresses) ==
    IF addresses = <<>> THEN EmptyObject
    ELSE LET addr == addresses[Len(addresses)]
         IN  (addressToKey(addr) :> Coords(addr.lat, addr.lng, Undefined))
                @@ geocodedOf(SubSeq(addresses, 1, Len(addresses) - 1))

\* the addresses of a loaded map carry no countyDensity
setAddresses(st, addresses) ==
    LET located == SelectSeq(addresses, hasCoordinates)
    IN  [st EXCEPT !.addresses = addresses,
                   !.processedAddresses =
                        [i \in 1..Len(located) |->
                            ProcessedAddress(located[i],
                                Coords(located[i].lat, located[i].lng,
                                       Undefined))],
                   !.geocodedAddresses = geocodedOf(located)]

\* what the load request came to: fetch rejected ("unreachable") or a JSON
\* payload { message, data: { addresses } } with or without data
LoadResponse(kind, hasData, addresses, message) ==
    [kind |-> kind, hasData |-> hasData, addresses |-> addresses,
     message |-> message]

NoLoadResponse == LoadResponse("none", FALSE, <<>>, Undefined)

loadHeatMap(response) ==
    IF response.kind = "unreachable"
    THEN Rejected("Failed to fetch")
    ELSE IF ~response.hasData
    THEN Rejected(IF Falsy(response.message) THEN "Failed to load heatmap"
                  ELSE response.message)
    ELSE Resolved(response.addresses)

\* as loadHeatmapData, but the stored records are not looked at
loadHeatmapData_Unvalidated(id, response) ==
    LET got == loadHeatMap(response)
    IN  IF Falsy(id) THEN Rejected("No map ID provided")
        ELSE IF got.threw THEN Rejected(got.message)
        ELSE IF Len(got.value) = 0
        THEN Rejected("No addresses found in map data")
        ELSE Resolved([i \in 1..Len(got.value) |->
                Address(AddressFields(got.value[i].street, got.value[i].city,
                                      got.value[i].state, got.value[i].zip),
                        geocodeField(got.value[i], "latitude"),
                        geocodeField(got.value[i], "longitude"))])

\* the fetcher of the SharedMap resource
loadHeatmapData(id, response) ==
    LET got == loadHeatMap(response)
    IN  IF Falsy(id) THEN Rejected("No map ID provided")
        ELSE IF got.threw THEN Rejected(got.message)
        ELSE IF Len(got.value) = 0
        THEN Rejected("No addresses found in map data")
        ELSE IF \E i \in 1..Len(got.value) :
                    \/ Falsy(geocodeField(got.value[i], "latitude"))
                    \/ Falsy(geocodeField(got.value[i], "longitude"))
        THEN Rejected("Invalid address data in map")
        ELSE Resolved([i \in 1..Len(got.value) |->
                Address(AddressFields(got.value[i].street, got.value[i].city,
                                      got.value[i].state, got.value[i].zip),
                        geocodeField(got.value[i], "latitude"),
                        geocodeField(got.value[i], "longitude"))])

\* points as they are handed to saveHeatMap or found in a stored document:
\* two with both coordinates, one without a geocode, one with latitude 0,
\* one without a longitude
HeatmapPoints ==
    { [street |-> "1 N MAIN ST", city |-> "CHICAGO", state |-> "IL",
       zip |-> "60601", countyDensity |-> "2100",
       geocode |-> [latitude |-> "41", longitude |-> "-87"]],
      [street |-> "7 PINE RD", city |-> "ELGIN", state |-> "IL",
       zip |-> "60602", countyDensity |-> Undefined,
       geocode |-> [latitude |-> "42", longitude |-> "-88"]],
      [street |-> "9 OAK AVE", city |-> "MADISON", state |-> "WI",
       zip |-> "53703", countyDensity |-> Undefined,
       geocode |-> EmptyObject],
      [street |-> "5 ELM ST", city |-> "GALENA", state |-> "IL",
       zip |-> "6103", countyDensity |-> Undefined,
       geocode |-> [latitude |-> "0", longitude |-> "-90"]],
      [street |-> "3 ASH CT", city |-> "PEORIA", state |-> "IL",
       zip |-> "60601", countyDensity |-> Undefined,
       geocode |-> ("latitude" :> "41")] }

RECURSIVE PointListsOfLength(_)
PointListsOfLength(n) ==
    IF n = 0 THEN { <<>> }
    ELSE { Append(l, p) : l \in PointListsOfLength(n - 1), p \in HeatmapPoints }

PointLists == UNION { PointListsOfLength(n) : n \in 0..MaxPoints }

\* one call of saveHeatMap: who made it, where it stands, its argument, the
\* body it sent, the response it got, how it settled, and the id of the
\* loaded map its points came from
Share(caller, pc, points, payload, response, out, origin) ==
    [caller |-> caller, pc |-> pc, points |-> points, payload |-> payload,
     response |-> response, out |-> out, origin |-> origin]

RouteIdle ==
    [pc |-> "idle", id |-> Undefined, response |-> NoLoadResponse,
     error |-> "", addresses |-> <<>>, loads |-> 0]

\* props.isSharedMap: AddressMap is rendered by the SharedMap page
isSharedMap == route.pc # "idle"

\* the document the remote store keeps under id, <<>> when there is none
StoredUnder(id) ==
    IF \E i \in 1..Len(backend) : ShareIds[i] = id
    THEN backend[CHOOSE i \in 1..Len(backend) : ShareIds[i] = id]
    ELSE <<>>

KnownIds == { ShareIds[i] : i \in 1..Len(backend) }

\* what the remote store may answer to a load of id: the document it keeps,
\* or no data for an id it does not know; or the request fails
LoadResponses(id) ==
    { LoadResponse("unreachable", FALSE, <<>>, Undefined) }
    \cup (IF id \in KnownIds
          THEN { LoadResponse("json", TRUE, StoredUnder(id), Undefined) }
          ELSE { LoadResponse("json", FALSE, <<>>, "Heatmap not found"),
                 LoadResponse("json", FALSE, <<>>, Undefined) })

\* the Share button is clicked: handleShare up to await fetch(...)
ShareStart ==
    /\ ~MicrotaskQueued
    /\ component = "ready"
    /\ ~store.isLoading
    /\ store.isSuccess
    /\ ~isSharedMap
    /\ Falsy(store.shareId)
    /\ Len(shares) < MaxShares
    /\ shares' = Append(shares,
            Share("handleShare", "saving", store.processedAddresses,
                  savePayload(store.processedAddresses), NoResponse, Pending,
                  Undefined))
    /\ UNCHANGED <<backend, route>>
    /\ UNCHANGED <<execVars, batchVars, etaVars, search>>

\* MapService.saveHeatMap is called with the points of the loaded map (the
\* call handleShare makes; the SharedMap page itself shows no Share button)
SaveLoaded ==
    /\ ~MicrotaskQueued
    /\ route.pc = "ready"
    /\ ~store.isLoading
    /\ Len(shares) < MaxShares
    /\ shares' = Append(shares,
            Share("direct", "saving", store.processedAddresses,
                  savePayload(store.processedAddresses), NoResponse, Pending,
                  route.id))
    /\ UNCHANGED <<backend, route>>
    /\ UNCHANGED <<execVars, batchVars, etaVars, search>>

\* saveHeatMap is called with a point list: up to await fetch(...)
SaveRequest ==
    \E k \in DOMAIN shares :
        /\ shares[k].pc = "called"
        /\ shares' = [shares EXCEPT ![k].pc = "saving",
                                    ![k].payload = savePayload(shares[k].points)]
        /\ UNCHANGED <<backend, route>>
        /\ UNCHANGED <<execVars, batchVars, etaVars, search>>

\* await fetch(...) of call k settles: saveHeatMap returns or throws, and
\* handleShare runs on to its next await or to its end.  A store that hands
\* out an _id keeps the document under it.
SaveSettles ==
    \E k \in DOMAIN shares :
        /\ ~MicrotaskQueued
        /\ shares[k].pc = "saving"
        /\ Len(backend) < Len(ShareIds)
        /\ \E response \in SaveResponses(ShareIds[Len(backend) + 1]) :
            LET out == saveHeatMap(response)
            IN  /\ backend' = IF response.kind = "json" /\ ~Falsy(response.id)
                              THEN Append(backend, shares[k].payload)
                              ELSE backend
                /\ shares' = [shares EXCEPT
                        ![k].response = response,
                        ![k].out = out,
                        ![k].pc = IF shares[k].caller = "handleShare"
                                     /\ ~out.threw
                                  THEN "permission" ELSE "done"]
                /\ store' = IF shares[k].caller # "handleShare" THEN store
                            ELSE IF out.threw
                            THEN setShareResult(store, "", out.message)
                            ELSE setShareResult(store, out.value, Undefined)
        /\ UNCHANGED route
        /\ UNCHANGED <<component, countyLayer, propsAddresses, tasks, now,
                       attempts>>
        /\ UNCHANGED <<execVars, etaVars, search>>

\* await checkClipboardPermission() of call k settles
PermissionSettles ==
    \E k \in DOMAIN shares :
        /\ ~MicrotaskQueued
        /\ shares[k].pc = "permission"
        /\ \E hasPermission \in BOOLEAN :
            IF hasPermission
            THEN /\ shares' = [shares EXCEPT ![k].pc = "copying"]
                 /\ UNCHANGED store
            ELSE /\ shares' = [shares EXCEPT ![k].pc = "done"]
                 /\ store' = setShareResult(store, shares[k].out.value,
                                            "Clipboard permission needed")
        /\ UNCHANGED <<backend, route>>
        /\ UNCHANGED <<component, countyLayer, propsAddresses, tasks, now,
                       attempts>>
        /\ UNCHANGED <<execVars, etaVars, search>>

\* await copyToClipboard(url) of call k settles
CopySettles ==
    \E k \in DOMAIN shares :
        /\ ~MicrotaskQueued
        /\ shares[k].pc = "copying"
        /\ \E copied \in BOOLEAN :
            store' = setShareResult(store, shares[k].out.value,
                        IF copied THEN "" ELSE "Failed to copy to clipboard")
        /\ shares' = [shares EXCEPT ![k].pc = "done"]
        /\ UNCHANGED <<backend, route>>
        /\ UNCHANGED <<component, countyLayer, propsAddresses, tasks, now,
                       attempts>>
        /\ UNCHANGED <<execVars, etaVars, search>>

\* the SharedMap resource starts its fetcher: for the id of the link when
\* the page opens, for the same id when Retry Loading is clicked
LoadStart ==
    /\ ~MicrotaskQueued
    /\ route.pc \in {"idle", "error"}
    /\ route.loads < MaxLoads
    /\ \E id \in (IF route.pc = "idle" THEN KnownIds \cup {UnknownId}
                  ELSE {route.id}) :
        route' = [route EXCEPT !.pc = "loading", !.id = id, !.error = "",
                               !.response = NoLoadResponse,
                               !.loads = @ + 1]
    /\ UNCHANGED <<shares, backend>>
    /\ UNCHANGED <<execVars, batchVars, etaVars, search>>

\* the fetcher settles.  With addresses the effect of SharedMap hands them
\* to the store and AddressMap is rendered with them; with an error the
\* page shows the message and Retry Loading.
LoadSettles ==
    /\ ~MicrotaskQueued
    /\ route.pc = "loading"
    /\ \E response \in LoadResponses(route.id) :
        LET out == loadHeatmapData(route.id, response)
        IN  IF out.threw
            THEN /\ route' = [route EXCEPT !.pc = "error",
                                           !.response = response,
                                           !.error = out.message]
                 /\ UNCHANGED <<store, component, propsAddresses>>
            ELSE /\ route' = [route EXCEPT !.pc = "ready",
                                           !.response = response,
                                           !.addresses = out.value]
                 /\ store' = setAddresses(store, out.value)
                 /\ component' = "mounting"
                 /\ propsAddresses' = out.value
    /\ UNCHANGED <<shares, backend>>
    /\ UNCHANGED <<countyLayer, tasks, now, attempts>>
    /\ UNCHANGED <<execVars, etaVars, search>>

---------------------------------------------------------------------------
(* components/SearchBox.tsx: the search history.  A history entry is        *)
(* { display, type, result }; JSON.stringify / JSON.parse keep such plain   *)
(* data as it is, so the localStorage item is the list itself, or absent.   *)

MaxHistory == 5        \* .slice(0, 5)

SearchResult(text, type) == [text |-> text, type |-> type]

HistoryEntry(result) ==
    [display |-> result.text, type |-> result.type, result |-> result]

\* what searchAll may find: counties, ZIP codes and an address
SearchResults ==
    { SearchResult("Cook County, IL", "county"),
      SearchResult("Lake County, IL", "county"),
      SearchResult("Dane County, WI", "county"),
      SearchResult("60601", "zip"),
      SearchResult("53703", "zip"),
      SearchResult("1 N MAIN ST, CHICAGO, IL 60601", "address") }

\* the result lists searchAll sets: nothing found, or one match
ResultLists == { <<>> } \cup { <<r>> : r \in SearchResults }

Stored(present, value) == [present |-> present, value |-> value]

\* localStorage has no item 'searchHistory'
NotStored == Stored(FALSE, <<>>)

\* what the user picked last: a result of a search (its text is kept), or an
\* entry of the history
NoSelection == [from |-> "none", text |-> ""]

Selection(from, result) ==
    [from |-> from, text |-> IF from = "results" THEN result.text ELSE ""]

\* JSON.parse(localStorage.getItem('searchHistory') || '[]')
getStoredHistory(stored) == IF stored.present THEN stored.value ELSE <<>>

\* [entry, ...history.filter(h => h.display !== result.text)].slice(0, 5)
saveToHistory(history, result) ==
    LET others == SelectSeq(history, LAMBDA h : h.display # result.text)
        all == <<HistoryEntry(result)>> \o others
    IN  SubSeq(all, 1, IF Len(all) < MaxHistory THEN Len(all) ELSE MaxHistory)

\* handleSelect and handleNewSearch: the result goes to the history and to
\* the localStorage item, the result list is closed
handleSelect(box, result, from) ==
    LET history == saveToHistory(box.searchHistory, result)
    IN  [box EXCEPT !.searchHistory = history,
                    !.stored = Stored(TRUE, history),
                    !.results = <<>>,
                    !.selectedIndex = -1,
                    !.selected = Selection(from, result)]

handleNewSearch(box, result) == handleSelect(box, result, "results")

handleHistorySelect(box, result) ==
    [box EXCEPT !.results = <<>>,
                !.selectedIndex = -1,
                !.selected = Selection("history", result)]

clearStoredHistory(box) ==
    [box EXCEPT !.searchHistory = <<>>, !.stored = NotStored]

\* the list the arrow keys and Enter work on
items(box) ==
    IF box.showHistory /\ box.results = <<>> THEN box.searchHistory
    ELSE box.results

SearchIdle ==
    search = [mounted |-> FALSE, searchHistory |-> <<>>, stored |-> NotStored,
              results |-> <<>>, showHistory |-> FALSE, selectedIndex |-> -1,
              selected |-> NoSelection]

\* onMount
SearchMount ==
    /\ ~search.mounted
    /\ search.selected = NoSelection
    /\ search' = [search EXCEPT !.mounted = TRUE,
                     !.searchHistory = getStoredHistory(search.stored)]
    /\ UNCHANGED <<execVars, batchVars, etaVars, shareVars>>

\* onInput with a text of at most two characters, or the clear button
InputShort ==
    /\ search.mounted
    /\ search' = [search EXCEPT !.results = <<>>, !.selectedIndex = -1]
    /\ UNCHANGED <<execVars, batchVars, etaVars, shareVars>>

\* the debounced searchAll of a longer text settles
SearchSettles ==
    /\ search.mounted
    /\ \E found \in ResultLists :
        search' = [search EXCEPT !.results = found]
    /\ UNCHANGED <<execVars, batchVars, etaVars, shareVars>>

Focus ==
    /\ search.mounted
    /\ search' = [search EXCEPT !.showHistory = TRUE]
    /\ UNCHANGED <<execVars, batchVars, etaVars, shareVars>>

\* onBlur, once its timer has run
Blur ==
    /\ search.mounted
    /\ search' = [search EXCEPT !.showHistory = FALSE]
    /\ UNCHANGED <<execVars, batchVars, etaVars, shareVars>>

ArrowDown ==
    /\ search.mounted
    /\ search' = [search EXCEPT !.selectedIndex =
            IF @ + 1 < Len(items(search)) - 1 THEN @ + 1
            ELSE Len(items(search)) - 1]
    /\ UNCHANGED <<execVars, batchVars, etaVars, shareVars>>

ArrowUp ==
    /\ search.mounted
    /\ search' = [search EXCEPT !.selectedIndex =
            IF @ - 1 > -1 THEN @ - 1 ELSE -1]
    /\ UNCHANGED <<execVars, batchVars, etaVars, shareVars>>

\* Enter on the highlighted item: handleSelect, for an entry of the history
\* with the result the entry holds
Enter ==
    /\ search.mounted
    /\ search.selectedIndex >= 0
    /\ search.selectedIndex < Len(items(search))
    /\ LET item == items(search)[search.selectedIndex + 1]
       IN  search' = IF "result" \in DOMAIN item
                     THEN handleSelect(search, item.result, "history")
                     ELSE handleSelect(search, item, "results")
    /\ UNCHANGED <<execVars, batchVars, etaVars, shareVars>>

\* a click on a result of the list
ClickResult ==
    /\ search.mounted
    /\ \E i \in 1..Len(search.results) :
        search' = handleNewSearch(search, search.results[i])
    /\ UNCHANGED <<execVars, batchVars, etaVars, shareVars>>

\* a click on an entry of Recent Searches
ClickHistory ==
    /\ search.mounted
    /\ search.showHistory
    /\ search.results = <<>>
    /\ \E i \in 1..Len(search.searchHistory) :
        search' = handleHistorySelect(search, search.searchHistory[i].result)
    /\ UNCHANGED <<execVars, batchVars, etaVars, shareVars>>

\* the Clear history button
ClearHistory ==
    /\ search.mounted
    /\ search.showHistory
    /\ search.results = <<>>
    /\ search.searchHistory # <<>>
    /\ search' = [clearStoredHistory(search) EXCEPT !.showHistory = FALSE,
                                                    !.selected = NoSelection]
    /\ UNCHANGED <<execVars, batchVars, etaVars, shareVars>>

\* onCleanup
SearchCleanup ==
    /\ search.mounted
    /\ search' = [clearStoredHistory(search) EXCEPT !.mounted = FALSE,
                                                    !.selected = NoSelection]
    /\ UNCHANGED <<execVars, batchVars, etaVars, shareVars>>

---------------------------------------------------------------------------
(* One exec call, step by step                                              *)

NoChoice == [invalid |-> FALSE, zip |-> Undefined]

\* the ZIP has no entry in the dataset, or an entry without a location
CentroidMissing(db, zip) ==
    LET found == geolocateZipCode(db, zip)
    IN  Len(found) = 0 \/ ~found[1].hasLocation

ExecIdle ==
    /\ execPc = "idle"
    /\ execAddress = NoAddress
    /\ called = {}
    /\ gOut = NotSettled
    /\ lOut = NotSettled
    /\ execPath = "none"
    /\ chosen = NoChoice
    /\ execResult = NoResult

\* new AddressValidationService(address).exec(): the primary is called first
ExecStart ==
    /\ execPc = "idle"
    /\ \E a \in BasicAddresses : execAddress' = a
    /\ execPc' = "google"
    /\ called' = {"Google"}
    /\ UNCHANGED <<zipDB, gOut, lOut, execPath, chosen, execResult>>
    /\ UNCHANGED <<batchVars, etaVars, shareVars, search>>

\* await this.ValidateAddressViaGoogle() settles; exec runs on to its next
\* await or to its end
GoogleSettles ==
    /\ execPc = "google"
    /\ \E resp \in GoogleResponses :
        LET out == ValidateAddressViaGoogle(execAddress, resp, zipDB)
            step == ExecAfterGoogle(out)
        IN  /\ gOut' = out
            /\ chosen' = IF resp.kind = "result"
                         THEN [invalid |-> LocationInvalid(resp.hasGeocode,
                                                           resp.geocode),
                               zip |-> splitDashFirst(resp.postalCode)]
                         ELSE NoChoice
            /\ execPc' = CASE step = "throw"  -> "thrown"
                           [] step = "return" -> "returned"
                           [] OTHER           -> "lob"
            /\ execPath' = CASE step = "throw"  -> "thrown"
                             [] step = "return" -> "primary"
                             [] OTHER           -> execPath
            /\ execResult' = IF step = "return" THEN out.value ELSE execResult
            /\ called' = IF step = "callLob" THEN called \cup {"Lob"}
                         ELSE called
    /\ UNCHANGED <<zipDB, execAddress, lOut>>
    /\ UNCHANGED <<batchVars, etaVars, shareVars, search>>

\* await this.validateAddressViaLob() settles; exec runs to its end
LobSettles ==
    /\ execPc = "lob"
    /\ \E resp \in LobResponses :
        LET out == validateAddressViaLob(execAddress, resp)
            fin == ExecAfterLob(execAddress, gOut.value, out, zipDB)
        IN  /\ lOut' = out
            /\ chosen' = IF ~out.threw /\ out.value.allValid
                         THEN [invalid |-> LocationInvalid(TRUE,
                                                           out.value.geocode),
                               zip |-> out.value.validatedAddress.zip]
                         ELSE chosen
            /\ execPc' = IF fin.threw THEN "thrown" ELSE "returned"
            /\ execPath' = IF fin.threw THEN "thrown"
                           ELSE IF out.value.allValid THEN "secondary"
                           ELSE "merged"
            /\ execResult' = IF fin.threw THEN execResult ELSE fin.value
    /\ UNCHANGED <<zipDB, execAddress, called, gOut>>
    /\ UNCHANGED <<batchVars, etaVars, shareVars, search>>

\* the caller has taken the outcome; the next call starts afresh
ExecFinish ==
    /\ execPc \in {"returned", "thrown"}
    /\ execPc' = "idle"
    /\ execAddress' = NoAddress
    /\ called' = {}
    /\ gOut' = NotSettled
    /\ lOut' = NotSettled
    /\ execPath' = "none"
    /\ chosen' = NoChoice
    /\ execResult' = NoResult
    /\ UNCHANGED zipDB
    /\ UNCHANGED <<batchVars, etaVars, shareVars, search>>

EtaIdle ==
    /\ etaSeconds = 0
    /\ etaText = ""

\* no heat map saved or requested, the index page shown
ShareIdle ==
    /\ shares = <<>>
    /\ backend = <<>>
    /\ route = RouteIdle

InitExec ==
    /\ zipDB \in ZipDatasets
    /\ ExecIdle
    /\ BatchIdle
    /\ ShareIdle
    /\ SearchIdle
    /\ EtaIdle

NextExec ==
    \/ ExecStart
    \/ GoogleSettles
    \/ LobSettles
    \/ ExecFinish

SpecExec == InitExec /\ [][NextExec]_vars

Init ==
    /\ zipDB \in BatchZipDatasets
    /\ ExecIdle
    /\ BatchIdle
    /\ ShareIdle
    /\ SearchIdle
    /\ EtaIdle

Next ==
    \/ OnMount
    \/ Upload
    \/ GeocodeSettles
    \/ AddMarkersSettles
    \/ Cleanup
    \/ Tick

Spec == Init /\ [][Next]_vars

\* The batch processor where every pending call settles: a provider call
\* (and its rescue lookup) resolves or rejects, and the event loop runs the
\* continuation of a settled addMarkers.  The clock, which the loop only
\* writes into the ETA, stands still.
NextTermination ==
    \/ OnMount
    \/ Upload
    \/ GeocodeSettles
    \/ AddMarkersSettles
    \/ Cleanup

SpecTermination ==
    /\ Init
    /\ [][NextTermination]_vars
    /\ WF_vars(GeocodeSettles)
    /\ WF_vars(AddMarkersSettles)

\* The index page with its Share button, from the point where a first list,
\* of addresses that all came with coordinates, has been processed with
\* success: the state OnMount and AddMarkersSettles leave behind
InitShare ==
    /\ zipDB \in BatchZipDatasets
    /\ ExecIdle
    /\ EtaIdle
    /\ ShareIdle
    /\ SearchIdle
    /\ component = "ready"
    /\ countyLayer = TRUE
    /\ now = 0
    /\ attempts = << <<>> >>
    /\ \E list \in { l \in InputLists :
                        \A i \in 1..Len(l) : hasCoordinates(l[i]) } :
        LET run == addMarkersLoop(
                       startProcessing(InitialState, Len(list), 0),
                       Task("loop", list, 1, <<>>), 0, TRUE)
        IN  /\ propsAddresses = list
            /\ tasks = << [run.task EXCEPT !.pc = "done"] >>
            /\ store = finishProcessing(
                            setFailed(run.store, run.task.failed), TRUE)

NextShare ==
    \/ Upload
    \/ GeocodeSettles
    \/ AddMarkersSettles
    \/ ShareStart
    \/ SaveSettles
    \/ PermissionSettles
    \/ CopySettles

SpecShare == InitShare /\ [][NextShare]_vars

\* saveHeatMap on its own, called with a point list
InitSave ==
    /\ zipDB \in BatchZipDatasets
    /\ ExecIdle
    /\ BatchIdle
    /\ EtaIdle
    /\ shares \in { <<Share("direct", "called", points, <<>>, NoResponse,
                            Pending, Undefined)>> : points \in PointLists }
    /\ backend = <<>>
    /\ route = RouteIdle
    /\ SearchIdle

NextSave ==
    \/ SaveRequest
    \/ SaveSettles

SpecSave == InitSave /\ [][NextSave]_vars

\* The SharedMap page opened on a link, the remote store holding one
\* document; AddressMap is there once the document is loaded
InitLoad ==
    /\ zipDB \in BatchZipDatasets
    /\ ExecIdle
    /\ EtaIdle
    /\ store = InitialState
    /\ component = "absent"
    /\ countyLayer = FALSE
    /\ propsAddresses = <<>>
    /\ tasks = <<>>
    /\ now = 0
    /\ attempts = <<>>
    /\ shares = <<>>
    /\ backend \in { <<points>> : points \in PointLists }
    /\ route = RouteIdle
    /\ SearchIdle

NextLoad ==
    \/ LoadStart
    \/ LoadSettles
    \/ OnMount
    \/ AddMarkersSettles
    \/ SaveLoaded
    \/ SaveSettles

SpecLoad == InitLoad /\ [][NextLoad]_vars

\* The search box on its own
InitSearch ==
    /\ zipDB \in BatchZipDatasets
    /\ ExecIdle
    /\ BatchIdle
    /\ EtaIdle
    /\ ShareIdle
    /\ SearchIdle

NextSearch ==
    \/ SearchMount
    \/ InputShort
    \/ SearchSettles
    \/ Focus
    \/ Blur
    \/ ArrowDown
    \/ ArrowUp
    \/ Enter
    \/ ClickResult
    \/ ClickHistory
    \/ ClearHistory
    \/ SearchCleanup

SpecSearch == InitSearch /\ [][NextSearch]_vars

MaxSeconds == 200      \* largest argument formatETA is tried with

InitETA ==
    /\ zipDB \in BatchZipDatasets
    /\ ExecIdle
    /\ BatchIdle
    /\ ShareIdle
    /\ SearchIdle
    /\ etaSeconds \in 0..MaxSeconds
    /\ etaText = ""

FormatETA ==
    /\ etaText = ""
    /\ etaText' = formatETA(etaSeconds)
    /\ UNCHANGED <<execVars, batchVars, etaSeconds, shareVars, search>>

NextETA == FormatETA

SpecETA == InitETA /\ [][NextETA]_vars

---------------------------------------------------------------------------
(* Properties of the Resolution Engine                                      *)

ExecSettled == execPc \in {"returned", "thrown"}

\* C3: when the primary provider call throws, exec still calls the
\* secondary provider, and exec fails only when both provider calls threw.
C3_SecondaryTriedAfterPrimaryThrows ==
    ExecSettled =>
        /\ gOut.threw => "Lob" \in called
        /\ execPc = "thrown" => (gOut.threw /\ lOut.threw)

\* C4: whenever the primary adapter resolves with allValid = true, exec
\* returns exactly that result, tagged as verified with the primary, and the
\* secondary adapter is never invoked.
C4_PrimaryFullyValidReturnedUnchanged ==
    (~gOut.threw /\ gOut.value.allValid) =>
        /\ execPc = "returned"
        /\ execResult = gOut.value
        /\ execResult.verifiedWith = "Google"
        /\ "Lob" \notin called

C4_Witness ==
    /\ execPc = "returned"
    /\ ~gOut.threw
    /\ gOut.value.allValid
    /\ execResult.validatedAddress.street = "1 N MAIN ST"

\* C5: whenever the primary resolves with allValid = false and the secondary
\* with allValid = true, exec returns the secondary's result, tagged as
\* verified with the secondary.
C5_SecondaryFullyValidReturned ==
    (~gOut.threw /\ ~gOut.value.allValid /\ ~lOut.threw /\ lOut.value.allValid)
        => /\ execPc = "returned"
           /\ execResult = lOut.value
           /\ execResult.verifiedWith = "Lob"

C5_Witness ==
    /\ execPc = "returned"
    /\ gOut.value.verifiedWith = "Google"
    /\ ~gOut.value.allValid
    /\ ~lOut.threw
    /\ lOut.value.allValid

\* C6: exec never returns successfully with a geocode whose latitude or
\* longitude is missing or exactly 0, on any of its return paths.
C6_NoZeroCoordinateSuccess ==
    execPc = "returned" => ~LocationInvalid(TRUE, execResult.geocode)

\* C7: when the geocode exec goes with is missing or zero and the ZIP
\* dataset has no centroid for the ZIP, the call fails and returns nothing.
C7_UnrescuableGeocodeFails ==
    (ExecSettled /\ chosen.invalid /\ CentroidMissing(zipDB, chosen.zip))
        => execPc = "thrown"

\* C8: in the merged result each validatedAddress field is the primary's
\* value if that is present and non-empty, otherwise the secondary's.
C8_MergedFieldPrimaryIfNonEmpty ==
    execPath = "merged" =>
        \A f \in AddressFieldNames :
            execResult.validatedAddress[f] =
                IF gOut.value.validatedAddress[f] \notin {Undefined, ""}
                THEN gOut.value.validatedAddress[f]
                ELSE lOut.value.validatedAddress[f]

\* C9: in the merged result the issues are the primary's followed by the
\* secondary's, duplicates kept: the length is the sum of both lengths and
\* at least the larger of the two.
C9_MergedIssuesConcatenated ==
    execPath = "merged" =>
        LET g == gOut.value.issues
            l == lOut.value.issues
            m == execResult.issues
        IN  /\ m = g \o l
            /\ Len(m) = Len(g) + Len(l)
            /\ Len(m) >= Len(g)
            /\ Len(m) >= Len(l)

C9_Witness ==
    /\ execPath = "merged"
    /\ Len(gOut.value.issues) = 2
    /\ Len(lOut.value.issues) = 3
    /\ Len(execResult.issues) = 5

\* C10: in the merged result the geocode holds the primary's value for every
\* field the primary supplies (a secondary field survives only where the
\* primary has none), and the suggestions are exactly the secondary's.
C10_MergeTieBreak ==
    execPath = "merged" =>
        LET g == gOut.value.geocode
            l == lOut.value.geocode
            m == execResult.geocode
        IN  /\ DOMAIN m = DOMAIN g \cup DOMAIN l
            /\ \A k \in DOMAIN g : m[k] = g[k]
            /\ \A k \in DOMAIN l \ DOMAIN g : m[k] = l[k]
            /\ execResult.suggestions = lOut.value.suggestions

C10_Witness ==
    /\ execPath = "merged"
    /\ "location" \in DOMAIN gOut.value.geocode
    /\ "location" \in DOMAIN lOut.value.geocode
    /\ gOut.value.geocode["location"] # lOut.value.geocode["location"]
    /\ execResult.geocode["location"] = Location("41", "-87")
    /\ "placeId" \in DOMAIN execResult.geocode
    /\ DOMAIN lOut.value.suggestions = {"zip"}
    /\ gOut.value.suggestions.street = "1 N MAIN ST"

---------------------------------------------------------------------------
(* Batch processing: properties                                             *)

\* runs of the effect that have started and whose finishProcessing has not
\* been called yet
RunningBatches == { t \in DOMAIN tasks : tasks[t].pc # "done" }

\* C1: at most one batch is running at a time: a start made while one is
\* running is rejected, so there are never two addMarkers runs in flight
\* writing the same store.
C1_AtMostOneBatchRunning == Cardinality(RunningBatches) <= 1

\* the number of points recorded for a run, read either as the entries of
\* the keyed map or as the entries of the per-run list
PointsRecorded(st) ==
    { Cardinality(DOMAIN st.geocodedAddresses), Len(st.processedAddresses) }

\* C2: when a batch run over a list of N addresses finishes (its
\* finishProcessing is called), the store shows progress = total = N, and N
\* is the number of failed addresses plus the number of points recorded for
\* the run.
C2_FinishedBatchAccountsForAll ==
    [][ \A t \in DOMAIN tasks :
            (tasks[t].pc \in {"resolved", "rejected"} /\ tasks'[t].pc = "done")
            => LET N == Len(tasks[t].addresses)
               IN  /\ store'.progress = N
                   /\ store'.total = N
                   /\ N - Len(store'.failedAddresses) \in PointsRecorded(store') ]_vars

\* the step in which the effect of run t calls finishProcessing
Finishes(t) ==
    /\ t \in DOMAIN tasks
    /\ tasks[t].pc \in {"resolved", "rejected"}
    /\ tasks'[t].pc = "done"

\* the items of run t whose resolution failed, in input order
FailedItems(t) == SelectSeq(attempts[t], LAMBDA a : ~a.ok)

WithoutError(fa) == Address(fa.fields, fa.lat, fa.lng)

C12_EnrichmentNeverBlocksBatch ==
    /\ (component = "countiesFailed" /\ propsAddresses # <<>>) => tasks # <<>>
    /\ \A t \in DOMAIN tasks :
        /\ tasks[t].pc # "rejected"
        /\ \A k \in DOMAIN attempts[t] :
            (attempts[t][k].ok /\ component # "disposed")
            => addressToKey(tasks[t].addresses[attempts[t][k].item])
                 \in DOMAIN store.geocodedAddresses

\* C13: a recorded point that lies inside no county polygon has its
\* countyDensity undefined; it never carries a number such as 0.
C13_OutsideEveryCountyDensityUndefined ==
    \A k \in DOMAIN store.geocodedAddresses :
        LET p == store.geocodedAddresses[k]
        IN  ~findCounty(p.lat, p.lng).found => p.countyDensity = Undefined

\* an input item carries a coordinate pair: lat and lng are both given, and
\* neither is the zero that stands for a missing coordinate
CarriesCoordinatePair(addr) ==
    /\ addr.lat \notin {Undefined, "0"}
    /\ addr.lng \notin {Undefined, "0"}

\* C14: an input item that carries a coordinate pair is never sent to a
\* provider and is recorded with exactly the coordinates given; only items
\* without a pair invoke the Resolution Engine.
C14_GivenCoordinatesSkipProviders ==
    \A t \in DOMAIN tasks :
        LET inputs == tasks[t].addresses
        IN  /\ tasks[t].pc = "geocoding"
                => ~CarriesCoordinatePair(inputs[tasks[t].index])
            /\ \A k \in DOMAIN attempts[t] :
                ~CarriesCoordinatePair(inputs[attempts[t][k].item])
            /\ \A i \in 1..(tasks[t].index - 1) :
                ~CarriesCoordinatePair(inputs[i])
                => \E k \in DOMAIN attempts[t] : attempts[t][k].item = i
            /\ \A i \in 1..(tasks[t].index - 1) :
                (CarriesCoordinatePair(inputs[i]) /\ component # "disposed")
                => /\ addressToKey(inputs[i]) \in DOMAIN store.geocodedAddresses
                   /\ store.geocodedAddresses[addressToKey(inputs[i])].lat
                        = inputs[i].lat
                   /\ store.geocodedAddresses[addressToKey(inputs[i])].lng
                        = inputs[i].lng

\* a run has passed an item with given coordinates, recorded it, and is now
\* waiting for the provider on the next item, which has none
C14_Witness ==
    \E t \in DOMAIN tasks :
        /\ tasks[t].pc = "geocoding"
        /\ tasks[t].index = 2
        /\ attempts[t] = <<>>
        /\ CarriesCoordinatePair(tasks[t].addresses[1])
        /\ component = "ready"
        /\ addressToKey(tasks[t].addresses[1]) \in DOMAIN store.geocodedAddresses

\* the runs that are waiting for a this.geocode call to settle
ProviderCallsInFlight == { t \in DOMAIN tasks : tasks[t].pc = "geocoding" }

\* C15: items are resolved one at a time, in input order, each once: the
\* settled calls of a run are for strictly increasing items, the call in
\* flight is for an item after all of them, and at no time are two provider
\* calls in flight.
C15_OneItemAtATimeInOrder ==
    /\ Cardinality(ProviderCallsInFlight) <= 1
    /\ \A t \in DOMAIN tasks :
        /\ \A j, k \in DOMAIN attempts[t] :
            j < k => attempts[t][j].item < attempts[t][k].item
        /\ \A k \in DOMAIN attempts[t] : attempts[t][k].item < tasks[t].index

\* C16: after a batch starts, eta keeps its initial value "" until the first
\* item of that batch has completed: while the latest batch is still waiting
\* for the outcome of its first item, eta is unset.
C16_EtaUnsetBeforeFirstCompletion ==
    \A t \in DOMAIN tasks :
        (t = Len(tasks) /\ tasks[t].pc = "geocoding" /\ tasks[t].index = 1)
        => store.eta = InitialState.eta

\* C18: startProcessing(total) resets the whole processing state of the
\* previous batch: whenever a batch can be started (the component is ready
\* and no batch is running), the state right after startProcessing has
\* isLoading = true, progress = 0, the given total, failed = 0, no failed
\* addresses, isSuccess = false, shareId and shareError empty, eta unset and
\* no point of an earlier batch.
C18_StartProcessingResetsAll ==
    (component = "ready" /\ RunningBatches = {})
    => \A total \in 1..MaxAddresses :
        LET after == startProcessing(store, total, now)
        IN  /\ after.isLoading
            /\ after.progress = 0
            /\ after.total = total
            /\ after.failed = 0
            /\ after.failedAddresses = <<>>
            /\ ~after.isSuccess
            /\ after.shareId = ""
            /\ after.shareError = ""
            /\ after.eta = InitialState.eta
            /\ after.geocodedAddresses = EmptyObject
            /\ after.processedAddresses = <<>>

\* C19: finishProcessing(success) sets isLoading to false and isSuccess to
\* the success given, whatever the number of failures, and changes nothing
\* else: the step in which a run's effect finishes leaves the state as
\* setFailed made it except for these two fields.
C19_FinishProcessingFrame ==
    [][ /\ \A success \in BOOLEAN :
            finishProcessing(store, success)
              = [store EXCEPT !.isLoading = FALSE, !.isSuccess = success]
        /\ \A t \in DOMAIN tasks :
            Finishes(t)
            => LET success == tasks[t].pc = "resolved"
                   before == IF success
                             THEN setFailed(store, tasks[t].failed)
                             ELSE store
               IN  /\ ~store'.isLoading
                   /\ store'.isSuccess = success
                   /\ store' = [before EXCEPT !.isLoading = FALSE,
                                              !.isSuccess = success] ]_vars

\* a run has finished with a failure and success was reported
C19_Witness ==
    \E t \in DOMAIN tasks :
        /\ tasks[t].pc = "done"
        /\ tasks[t].failed # <<>>
        /\ store.failedAddresses = tasks[t].failed
        /\ store.failed > 0
        /\ store.isSuccess
        /\ ~store.isLoading
        /\ store.progress = Len(tasks[t].addresses)

\* C20: once the component has been cleaned up (reset() was called), a run
\* still in flight applies none of its later results: progress, the recorded
\* points, the failures, isLoading and isSuccess keep their reset values (no
\* new batch is started on a disposed component).
C20_AbandonedRunAppliesNothing ==
    component = "disposed"
    => /\ store.progress = InitialState.progress
       /\ store.geocodedAddresses = InitialState.geocodedAddresses
       /\ store.processedAddresses = InitialState.processedAddresses
       /\ store.failed = InitialState.failed
       /\ store.failedAddresses = InitialState.failedAddresses
       /\ store.isLoading = InitialState.isLoading
       /\ store.isSuccess = InitialState.isSuccess

\* the fields of the processing state a batch reports its work in
BatchFields(st) ==
    <<st.progress, st.failed, st.failedAddresses, st.geocodedAddresses,
      st.processedAddresses, st.shareId, st.isSuccess>>

\* C21: while a batch is running (isLoading), the processing state is written
\* only by that batch's own loop: every step that changes progress, the
\* failures, the recorded points, shareId or isSuccess is a step of a run
\* that was already running, and not a new start, a cleanup or another task.
C21_OnlyTheRunningBatchWrites ==
    [][ (store.isLoading /\ BatchFields(store') # BatchFields(store))
        => /\ Len(tasks') = Len(tasks)
           /\ component' = component
           /\ \E t \in RunningBatches : tasks'[t] # tasks[t] ]_vars

\* /^\d{5}(-\d{4})?$/.test(zip) on the ZIP strings of the model
zipShapeTest(zip) ==
    CASE zip = "60601"      -> TRUE
      [] zip = "60602"      -> TRUE
      [] zip = "53703"      -> TRUE
      [] zip = "60601-1234" -> TRUE
      [] zip = "60602-0001" -> TRUE
      [] OTHER              -> FALSE     \* "6103", "", undefined

\* C26: an address whose ZIP does not have the shape ddddd or ddddd-dddd is
\* rejected before any provider call: a run never awaits, and never has
\* made, a provider call for such an item.
C26_MalformedZipNeverReachesProvider ==
    \A t \in DOMAIN tasks :
        /\ tasks[t].pc = "geocoding"
           => zipShapeTest(tasks[t].addresses[tasks[t].index].fields.zip)
        /\ \A k \in DOMAIN attempts[t] :
             zipShapeTest(tasks[t].addresses[attempts[t][k].item].fields.zip)

\* the items whose outcome (a recorded point or a recorded failure) is in
\* the processing state
OutcomesRecorded(st) == Len(st.processedAddresses) + Len(st.failedAddresses)

\* C28: progress is advanced only after an item's outcome is recorded: in
\* every state of a run, progress is the number of items whose outcome is
\* recorded in the state, and 0 <= progress <= total.
C28_ProgressCountsRecordedOutcomes ==
    store.isLoading
    => /\ store.progress = OutcomesRecorded(store)
       /\ 0 <= store.progress
       /\ store.progress <= store.total

\* C27: every started batch terminates when every provider call and rescue
\* lookup eventually settles: the run reaches finishProcessing (isLoading is
\* false) with all its inputs consumed.
C27_EveryStartedBatchTerminates ==
    \A t \in 1..MaxBatches :
        (t \in DOMAIN tasks)
        ~> /\ t \in DOMAIN tasks
           /\ tasks[t].pc = "done"
           /\ tasks[t].index > Len(tasks[t].addresses)
           /\ ~store.isLoading

\* a run over a full list that called the providers, one call failing, has
\* finished
C27_Witness ==
    \E t \in DOMAIN tasks :
        /\ tasks[t].pc = "done"
        /\ Len(tasks[t].addresses) = MaxAddresses
        /\ tasks[t].index > MaxAddresses
        /\ \E k \in DOMAIN attempts[t] : ~attempts[t][k].ok
        /\ ~store.isLoading

---------------------------------------------------------------------------
(* Share persistence gateway: properties                                    *)

\* the point has a latitude and a longitude; a zero one counts as missing,
\* as everywhere in the pipeline
BothCoordinatesPresent(point) ==
    /\ DOMAIN point.geocode = {"latitude", "longitude"}
    /\ point.geocode["latitude"] \notin {Undefined, "0"}
    /\ point.geocode["longitude"] \notin {Undefined, "0"}

\* C22: saveHeatMap submits exactly the points that have both a latitude and
\* a longitude, unchanged and in their order; the points it drops raise no
\* error: when the store accepts the request the call returns the id.
C22_SaveSubmitsLocatedPointsOnly ==
    \A k \in DOMAIN shares :
        /\ shares[k].pc # "called"
           => shares[k].payload
                = SelectSeq(shares[k].points, BothCoordinatesPresent)
        /\ (shares[k].pc = "done" /\ shares[k].response.kind = "json"
                /\ shares[k].response.success
                /\ shares[k].response.id # Undefined)
           => ~shares[k].out.threw

\* a call given a located point and a point without coordinates has
\* returned, having sent the located one alone
C22_Witness ==
    \E k \in DOMAIN shares :
        /\ shares[k].pc = "done"
        /\ ~shares[k].out.threw
        /\ Len(shares[k].points) = 2
        /\ Len(shares[k].payload) = 1

\* the store did not accept the save: it was not reached, answered with a
\* status that is not OK, or sent a payload that is not a success payload
SaveRefused(response) ==
    \/ response.kind \in {"unreachable", "status"}
    \/ ~response.success
    \/ response.id = Undefined

\* C23: when the store is unreachable, answers with a non-OK status or sends
\* a non-success payload (success = false or no data._id), saveHeatMap throws
\* and yields no id, and handleShare ends without another request, leaving
\* shareId empty and shareError set; an id is returned only for a success
\* payload.
C23_SaveFailsOnRefusal ==
    [][ \A k \in DOMAIN shares :
          (shares[k].pc = "saving" /\ shares'[k].pc # "saving")
          => IF SaveRefused(shares'[k].response)
             THEN /\ shares'[k].out.threw
                  /\ shares'[k].pc = "done"
                  /\ store'.shareId = ""
                  /\ store'.shareError # ""
             ELSE /\ ~shares'[k].out.threw
                  /\ shares'[k].out.value = shares'[k].response.id ]_vars

\* C29: while a batch is running (isLoading) shareId is empty: the id of a
\* save made for an earlier batch's points is never put into the state of a
\* later batch.
C29_NoShareIdWhileRunning ==
    store.isLoading => store.shareId = ""

\* C24: loading a shared map fails with the store's message (NotFound) when
\* the store returns no data for the id, and with "Invalid address data in
\* map" (DataInvalid) when a stored record lacks its latitude or longitude;
\* in both cases the store is left as it was: setAddresses is not called and
\* AddressMap is given no address.
C24_FailedLoadHandsNothingOver ==
    [][ (route.pc = "loading" /\ route'.pc # "loading")
        => LET response == route'.response
           IN  /\ (response.kind = "json" /\ ~response.hasData)
                  => /\ route'.pc = "error"
                     /\ route'.error \in {"Heatmap not found",
                                          "Failed to load heatmap"}
                     /\ store' = store
                     /\ propsAddresses' = propsAddresses
               /\ (/\ response.kind = "json"
                   /\ response.hasData
                   /\ \E i \in 1..Len(response.addresses) :
                        ~BothCoordinatesPresent(response.addresses[i]))
                  => /\ route'.pc = "error"
                     /\ route'.error = "Invalid address data in map"
                     /\ store' = store
                     /\ propsAddresses' = propsAddresses ]_vars

\* a load has failed on a document that holds a located point and a point
\* without coordinates
C24_Witness ==
    /\ route.pc = "error"
    /\ route.response.hasData
    /\ \E i, j \in 1..Len(route.response.addresses) :
        /\ BothCoordinatesPresent(route.response.addresses[i])
        /\ ~BothCoordinatesPresent(route.response.addresses[j])
    /\ store.addresses = <<>>

\* what a load of id returns from a store that returns what it keeps
LoadOf(id) ==
    loadHeatmapData(id, LoadResponse("json", TRUE, StoredUnder(id), Undefined))

\* the coordinates of a list of addresses, as a set
CoordinateSet(addresses) ==
    { <<addresses[i].lat, addresses[i].lng>> : i \in 1..Len(addresses) }

\* C25: share round trip: when the points of a loaded map are saved, the
\* load of the new id succeeds and returns the same set of coordinates as
\* the load of the id they came from.
C25_ShareRoundTrip ==
    \A k \in DOMAIN shares :
        (shares[k].origin # Undefined /\ shares[k].pc = "done"
            /\ ~shares[k].out.threw)
        => /\ ~LoadOf(shares[k].origin).threw
           /\ ~LoadOf(shares[k].out.value).threw
           /\ shares[k].out.value # shares[k].origin
           /\ CoordinateSet(LoadOf(shares[k].out.value).value)
                = CoordinateSet(LoadOf(shares[k].origin).value)

\* the two different points of a loaded map, processed by AddressMap, have
\* been saved under a new id
C25_Witness ==
    \E k \in DOMAIN shares :
        /\ shares[k].origin # Undefined
        /\ shares[k].pc = "done"
        /\ ~shares[k].out.threw
        /\ Cardinality(CoordinateSet(LoadOf(shares[k].out.value).value)) = 2
        /\ \E t \in DOMAIN tasks : tasks[t].pc = "done"

---------------------------------------------------------------------------
(* Search box: properties                                                   *)

\* the history a selection of a search result must leave behind
HistoryInOrder(box) ==
    /\ box.searchHistory # <<>>
    /\ Len(box.searchHistory) <= 5
    /\ \A i, j \in 1..Len(box.searchHistory) :
         i # j => box.searchHistory[i].display # box.searchHistory[j].display
    /\ box.searchHistory[1].display = box.selected.text
    /\ box.stored = Stored(TRUE, box.searchHistory)

\* C30: after a selection of a search result the history (signal and
\* localStorage item) is non-empty, holds at most 5 entries, no two with the
\* same display text, with the selected result first; and selecting an entry
\* of the history leaves the history as it was.
C30_HistoryBoundedUniqueRecentFirst ==
    [][ /\ search'.selected.from = "results" => HistoryInOrder(search')
        /\ (search'.selected.from = "history"
                /\ search'.selected # search.selected)
           => /\ search'.searchHistory = search.searchHistory
              /\ search'.stored = search.stored ]_vars

---------------------------------------------------------------------------
(* formatETA: properties                                                    *)

\* C17: for every integer s >= 0, formatETA(s) is "{s}s" when s < 60 and
\* otherwise "{m}m {r}s" where s = 60 m + r and r is in 0..59; 45 gives
\* "45s", 125 gives "2m 5s" and 0 gives "0s".
C17_FormatETAShape ==
    etaText # ""
    => /\ etaSeconds < 60 => etaText = ToString(etaSeconds) \o "s"
       /\ etaSeconds >= 60
            => \E m \in 1..etaSeconds, r \in 0..59 :
                /\ etaSeconds = 60 * m + r
                /\ etaText = ToString(m) \o "m " \o ToString(r) \o "s"
       /\ etaSeconds = 45 => etaText = "45s"
       /\ etaSeconds = 125 => etaText = "2m 5s"
       /\ etaSeconds = 0 => etaText = "0s"

C17_Witness == etaSeconds = 125 /\ etaText = "2m 5s"

=============================================================================
